---- MODULE Spec2Model ----
\* Verification model of the Gaussian belief propagation factor graph of gbp-rs
\* (src/gbp-rs/src/factorgraph/factorgraph.rs).  Numbers of the program are f64;
\* the model computes with exact rationals <<numerator, denominator>>, so
\* rounding is not modelled.  The Factor and Variable trait implementations are
\* not part of the sources; their operations follow sections 4.1-4.3 of the
\* specification and are marked as such where they are defined.
EXTENDS Integers, Sequences, FiniteSets, TLC

VARIABLES
    factors,        \* FactorGraph.factors: Seq of FactorNode
    variables,      \* FactorGraph.variables: Seq of VariableNode
    gbp_settings,   \* FactorGraph.gbp_settings
    pc,             \* position of the caller / of solve()
    settings,       \* solve(): the SolveSettings argument
    i,              \* solve(): loop index
    energy_log,     \* solve(): [f64; 2]
    count,          \* solve(): consecutive iterations under the threshold
    outcome,        \* how the last call ended
    apply_dropout,  \* compute_messages(): the Dropout argument of the last call
    draws,          \* compute_messages(): the uniform draw taken for each factor
    energy_trace,   \* every value energy() returned to solve(), in order
    computed,       \* ids of the factors whose messages the last message phase computed
    joint,          \* result of the last joint_distribution() call
    runA,           \* first of two solve() runs compared with each other
    runB,           \* second of the two runs
    simulation_manager, \* the SimulationManager resource
    world           \* the resources and events handle_requests writes

vars == <<factors, variables, gbp_settings, pc, settings, i, energy_log, count,
          outcome, apply_dropout, draws, energy_trace, computed, joint, runA, runB,
          simulation_manager, world>>

-----------------------------------------------------------------------------
\* Bounds of the model.

\* most variables a graph holds
MaxVariables == 2
\* most factors a graph holds
MaxFactors == 2
\* most degrees of freedom of a variable
MaxDofs == 2
\* largest SolveSettings.iterations
MaxIterations == 4
\* the unit interval is sampled at k / DropoutScale
DropoutScale == 2
\* SolveSettings.iterations of the two compared runs
PairIterations == 3

\* the largest iterations_since_relinearisation the damping schedule is asked for
MaxCounter == 6

\* most simulations found in the simulations directory
MaxSimulations == 2
\* most requests pending in the queue of the SimulationManager
MaxRequests == 3
\* largest simulations_loaded
MaxLoaded == 4

-----------------------------------------------------------------------------
\* Exact arithmetic standing for f64.

Abs(x) == IF x < 0 THEN -x ELSE x

RECURSIVE Gcd(_, _)
Gcd(a, b) == IF b = 0 THEN a ELSE Gcd(b, a % b)

Q(n, d) ==
    LET g == Gcd(Abs(n), Abs(d))
        s == IF d < 0 THEN -1 ELSE 1
    IN  <<(s * n) \div g, (s * d) \div g>>

R(n) == <<n, 1>>

RAdd(a, b) ==
    LET g == Gcd(a[2], b[2])
    IN  Q(a[1] * (b[2] \div g) + b[1] * (a[2] \div g), a[2] * (b[2] \div g))
RNeg(a) == <<-a[1], a[2]>>
RSub(a, b) == RAdd(a, RNeg(b))
RMul(a, b) ==
    LET g1 == Gcd(Abs(a[1]), b[2])
        g2 == Gcd(Abs(b[1]), a[2])
    IN  Q((a[1] \div g1) * (b[1] \div g2), (a[2] \div g2) * (b[2] \div g1))
\* division by zero has no value: the callers test the divisor first
RDiv(a, b) == RMul(a, IF b[1] < 0 THEN <<-b[2], -b[1]>> ELSE <<b[2], b[1]>>)
RLt(a, b) ==
    LET g == Gcd(a[2], b[2])
    IN  a[1] * (b[2] \div g) < b[1] * (a[2] \div g)
RAbs(a) == <<Abs(a[1]), a[2]>>
RZero == R(0)

\* vectors are sequences of numbers, matrices sequences of rows
ZeroVec(n) == [k \in 1..n |-> RZero]
ZeroMat(n, m) == [r \in 1..n |-> [c \in 1..m |-> RZero]]

RECURSIVE SumSeq(_)
SumSeq(s) == IF s = <<>> THEN 0 ELSE Head(s) + SumSeq(Tail(s))

RECURSIVE RSumSeq(_)
RSumSeq(s) == IF s = <<>> THEN RZero ELSE RAdd(Head(s), RSumSeq(Tail(s)))

VecAdd(a, b) == [k \in 1..Len(a) |-> RAdd(a[k], b[k])]
MatAdd(a, b) == [r \in 1..Len(a) |-> [c \in 1..Len(a[r]) |-> RAdd(a[r][c], b[r][c])]]

\* MultivariateNormal in information form
Gaussian(eta, lam) == [information_vector |-> eta, precision_matrix |-> lam]
ZeroGaussian(d) == Gaussian(ZeroVec(d), ZeroMat(d, d))
GaussianAdd(a, b) ==
    Gaussian(VecAdd(a.information_vector, b.information_vector),
             MatAdd(a.precision_matrix, b.precision_matrix))

-----------------------------------------------------------------------------
\* Variable (trait object held by a VariableNode).  Its implementation is not in
\* the sources; it follows section 4.2 of the specification.  The solver is
\* exercised on variables with one degree of freedom.

Eta1(g) == g.information_vector[1]
Lam1(g) == g.precision_matrix[1][1]
Mean1(g) == RDiv(Eta1(g), Lam1(g))
Scalar(eta, lam) == Gaussian(<<eta>>, <<<<lam>>>>)

\* a variable as its constructor leaves it: belief = prior, no message slot
NewVariable(prior) == [prior |-> prior, belief |-> prior, inbox |-> <<>>]

RECURSIVE SumGaussians(_, _, _)
SumGaussians(inbox, ids, acc) ==
    IF ids = {} THEN acc
    ELSE LET f == CHOOSE x \in ids : TRUE
         IN  SumGaussians(inbox, ids \ {f}, GaussianAdd(acc, inbox[f]))

\* update_belief(): belief = prior + sum of the incoming messages
VariableUpdateBelief(v) ==
    [v EXCEPT !.belief = SumGaussians(v.inbox, DOMAIN v.inbox, v.prior)]

\* send_message_to(factor_id): prior + every incoming message but factor_id's
SendMessageTo(v, fid) == SumGaussians(v.inbox, DOMAIN v.inbox \ {fid}, v.prior)

\* prior_energy(): squared Mahalanobis distance of the belief mean from the
\* prior mean under the prior covariance
PriorEnergy(v) ==
    LET d == RSub(Mean1(v.belief), Mean1(v.prior))
    IN  RMul(RMul(d, d), Lam1(v.prior))

Receive(v, fid, msg) ==
    [v EXCEPT !.inbox = [k \in DOMAIN v.inbox \cup {fid} |->
                            IF k = fid THEN msg ELSE v.inbox[k]]]

-----------------------------------------------------------------------------
\* Factor (trait object held by a FactorNode).  Its implementation is not in the
\* sources; it follows section 4.3 of the specification.  A factor has one or
\* two scalar neighbours here.

Dot(a, b) == RSumSeq([k \in 1..Len(a) |-> RMul(a[k], b[k])])

\* measurement model: Linear h(x) = J.x ; NonLinear is the piecewise linear
\* h(x) = max(x[1], 2 x[1] - 1), less x[2] for a factor with two neighbours
Steep(x) == RLt(R(1), x[1])

Predict(model, x) ==
    IF model.kind = "Linear" THEN Dot(model.J, x)
    ELSE LET h1 == IF Steep(x) THEN RSub(RMul(R(2), x[1]), R(1)) ELSE x[1]
         IN  IF Len(x) = 1 THEN h1 ELSE RSub(h1, x[2])

Jacobian(model, x) ==
    IF model.kind = "Linear" THEN model.J
    ELSE LET j1 == IF Steep(x) THEN R(2) ELSE R(1)
         IN  IF Len(x) = 1 THEN <<j1>> ELSE <<j1, R(-1)>>

\* adj_means(): the neighbours' belief means, in adjacency order
AdjMeans(vs, adj) == [k \in 1..Len(adj) |-> Mean1(vs[adj[k] + 1].variable.belief)]

Residual(f, vs, adj) == RSub(f.model.z, Predict(f.model, AdjMeans(vs, adj)))

\* a factor as its constructor leaves it
NewFactor(model, n, d) ==
    [model |-> model,
     linearisation_point |-> ZeroVec(d),
     gaussian |-> ZeroGaussian(d),
     outbox |-> [k \in 1..n |-> ZeroGaussian(1)],
     computes |-> 0,
     messages_sent |-> 0]

\* compute(): linearise around the current adjacency mean
FactorCompute(f, vs, adj) ==
    LET x == AdjMeans(vs, adj)
        r == RSub(f.model.z, Predict(f.model, x))
        J == Jacobian(f.model, x)
        W == f.model.W
        t == RAdd(Dot(J, x), r)
    IN  [f EXCEPT
            !.linearisation_point = x,
            !.gaussian = Gaussian(
                [k \in 1..Len(J) |-> RMul(RMul(J[k], W), t)],
                [a \in 1..Len(J) |-> [b \in 1..Len(J) |-> RMul(RMul(J[a], W), J[b])]]),
            !.computes = @ + 1]

\* energy(): r' W r at the current adjacency mean
FactorEnergy(f, vs, adj) ==
    LET r == Residual(f, vs, adj) IN RMul(RMul(r, f.model.W), r)

Blend(d, new, old) == RAdd(RMul(RSub(R(1), d), new), RMul(d, old))

\* the message to neighbour k before damping (Schur complement on the other
\* neighbour's block); an ill-conditioned complement leaves the message as it was
MessageTo(f, fid, vs, adj, k) ==
    IF Len(adj) = 1 THEN f.gaussian
    ELSE LET o == 3 - k
             m == SendMessageTo(vs[adj[o] + 1].variable, fid)
             F == f.gaussian.precision_matrix
             e == f.gaussian.information_vector
             lam_oo == RAdd(F[o][o], Lam1(m))
             eta_o == RAdd(e[o], Eta1(m))
         IN  IF lam_oo = RZero THEN f.outbox[k]
             ELSE Scalar(RSub(e[k], RDiv(RMul(F[k][o], eta_o), lam_oo)),
                         RSub(F[k][k], RDiv(RMul(F[k][o], F[o][k]), lam_oo)))

\* compute_messages(damping): the outgoing message to each neighbour
FactorComputeMessages(f, fid, vs, adj, damping) ==
    [f EXCEPT
        !.outbox = [k \in 1..Len(adj) |->
            LET new == MessageTo(f, fid, vs, adj, k)
                old == f.outbox[k]
            IN  Scalar(Blend(damping, Eta1(new), Eta1(old)),
                       Blend(damping, Lam1(new), Lam1(old)))],
        !.messages_sent = @ + 1]

\* robustify_loss(): the Gaussian loss has nothing to re-scale
FactorRobustifyLoss(f) == f

-----------------------------------------------------------------------------
\* FactorGraph.  A graph g is [factors, variables, gbp_settings].

VariableNode(id, dofs, variable) == [id |-> id, dofs |-> dofs, variable |-> variable]

\* FactorNode::new
FactorNode(id, factor, adjacent_variables) ==
    [id |-> id,
     iterations_since_relinearisation |-> 0,
     factor |-> factor,
     adjacent_variables |-> adjacent_variables]

\* FactorGraph::new
NewGraph(gs) == [factors |-> <<>>, variables |-> <<>>, gbp_settings |-> gs]

add_variable(g, variable, dofs) ==
    LET id == Len(g.variables)
    IN  [g EXCEPT !.variables = Append(@, VariableNode(id, dofs, variable))]

add_factorIdOfVariables(g, factor, adjacent_variables) ==
    LET id == Len(g.variables)
    IN  [g EXCEPT !.factors = Append(@, FactorNode(id, factor, adjacent_variables))]

add_factor(g, factor, adjacent_variables) ==
    LET id == Len(g.factors)
    IN  [g EXCEPT !.factors = Append(@, FactorNode(id, factor, adjacent_variables))]

DampingAtBoundary(gs, iterations_since_relinearisation) ==
    IF iterations_since_relinearisation >= gs.number_of_undamped_iterations
    THEN gs.damping
    ELSE RZero

\* GbpSettings::damping
Damping(gs, iterations_since_relinearisation) ==
    IF iterations_since_relinearisation > gs.number_of_undamped_iterations
    THEN gs.damping
    ELSE RZero

update_beliefs(g) ==
    [g EXCEPT !.variables = [k \in 1..Len(g.variables) |->
        [g.variables[k] EXCEPT !.variable = VariableUpdateBelief(@)]]]

ShouldComputeAtBoundary(flag, draw, dropout) == ~flag \/ ~RLt(draw, dropout)

ShouldComputeInverted(flag, draw, dropout) == ~flag \/ RLt(draw, dropout)

\* the test of compute_messages: is the factor's message computation run?
ShouldCompute(flag, draw, dropout) == ~flag \/ RLt(dropout, draw)

\* the sweep of compute_messages over factors k..n; every factor reads the
\* messages as they stood when the phase began (vs0) and writes its own
RECURSIVE MessageSweep(_, _, _, _, _)
MessageSweep(g, vs0, flag, d, k) ==
    IF k > Len(g.factors) THEN g
    ELSE LET node == g.factors[k]
             adj == node.adjacent_variables
         IN  IF ShouldCompute(flag, d[k], g.gbp_settings.dropout)
             THEN LET damping == Damping(g.gbp_settings, node.iterations_since_relinearisation)
                      f2 == FactorComputeMessages(node.factor, node.id, vs0, adj, damping)
                      vs2 == [j \in 1..Len(g.variables) |->
                                 IF \E n \in 1..Len(adj) : adj[n] + 1 = j
                                 THEN LET n == CHOOSE n \in 1..Len(adj) : adj[n] + 1 = j
                                      IN  [g.variables[j] EXCEPT !.variable =
                                              Receive(@, node.id, f2.outbox[n])]
                                 ELSE g.variables[j]]
                  IN  MessageSweep([g EXCEPT !.factors[k].factor = f2, !.variables = vs2],
                                   vs0, flag, d, k + 1)
             ELSE MessageSweep(g, vs0, flag, d, k + 1)

compute_messages(g, flag, d) == MessageSweep(g, g.variables, flag, d, 1)

\* the drift test with a non-strict comparison
DriftedOrEqual(f, vs, adj, beta) ==
    LET x == AdjMeans(vs, adj)
        normsq == RSumSeq([k \in 1..Len(x) |->
                      RMul(RSub(x[k], f.linearisation_point[k]),
                           RSub(x[k], f.linearisation_point[k]))])
    IN  ~RLt(normsq, RMul(beta, beta))

\* is the adjacency mean further than beta from the linearisation point?
Drifted(f, vs, adj, beta) ==
    LET x == AdjMeans(vs, adj)
        normsq == RSumSeq([k \in 1..Len(x) |->
                      RMul(RSub(x[k], f.linearisation_point[k]),
                           RSub(x[k], f.linearisation_point[k]))])
    IN  RLt(RMul(beta, beta), normsq)

jit_linearisation(g) ==
    [g EXCEPT !.factors = [k \in 1..Len(g.factors) |->
        LET node == g.factors[k]
        IN  IF node.factor.model.kind = "NonLinear"
               /\ Drifted(node.factor, g.variables, node.adjacent_variables,
                          g.gbp_settings.beta)
            THEN [node EXCEPT !.factor =
                     FactorCompute(@, g.variables, node.adjacent_variables)]
            ELSE node]]

robustify_factors(g) ==
    [g EXCEPT !.factors = [k \in 1..Len(g.factors) |->
        [g.factors[k] EXCEPT !.factor = FactorRobustifyLoss(@)]]]

linearise_factors(g) ==
    [g EXCEPT !.factors = [k \in 1..Len(g.factors) |->
        [g.factors[k] EXCEPT !.factor =
            FactorCompute(@, g.variables, g.factors[k].adjacent_variables)]]]

synchronous_iteration(g, d) ==
    update_beliefs(compute_messages(jit_linearisation(robustify_factors(g)), TRUE, d))

RECURSIVE FoldFactorEnergy(_, _, _)
FoldFactorEnergy(g, k, acc) ==
    IF k > Len(g.factors) THEN acc
    ELSE FoldFactorEnergy(g, k + 1,
            RAdd(acc, FactorEnergy(g.factors[k].factor, g.variables,
                                   g.factors[k].adjacent_variables)))

RECURSIVE FoldPriorEnergy(_, _, _)
FoldPriorEnergy(g, k, acc) ==
    IF k > Len(g.variables) THEN acc
    ELSE FoldPriorEnergy(g, k + 1, RAdd(acc, PriorEnergy(g.variables[k].variable)))

energyAlwaysPriors(g, include_priors) ==
    RAdd(FoldFactorEnergy(g, 1, RZero), FoldPriorEnergy(g, 1, RZero))

energyFoldsFromOne(g, include_priors) ==
    RAdd(FoldFactorEnergy(g, 1, R(1)),
         IF include_priors THEN FoldPriorEnergy(g, 1, RZero) ELSE RZero)

energy(g, include_priors) ==
    LET factor_energy == FoldFactorEnergy(g, 1, RZero)
        prior_energy == IF include_priors THEN FoldPriorEnergy(g, 1, RZero) ELSE RZero
    IN  RAdd(factor_energy, prior_energy)

\* the reset step taking the pass number i + 1 for the loop index
ResetStepOffByOne(g, n) ==
    IF \E k \in 1..Len(g.gbp_settings.reset_iterations_since_relinearisation) :
           g.gbp_settings.reset_iterations_since_relinearisation[k] = n + 1
    THEN [g EXCEPT !.factors = [k \in 1..Len(g.factors) |->
             [g.factors[k] EXCEPT !.iterations_since_relinearisation = 1]]]
    ELSE g

\* the reset step of solve(): iterations_since_relinearisation := 1 when the
\* loop index is listed
ResetStep(g, n) ==
    IF \E k \in 1..Len(g.gbp_settings.reset_iterations_since_relinearisation) :
           g.gbp_settings.reset_iterations_since_relinearisation[k] = n
    THEN [g EXCEPT !.factors = [k \in 1..Len(g.factors) |->
             [g.factors[k] EXCEPT !.iterations_since_relinearisation = 1]]]
    ELSE g

-----------------------------------------------------------------------------
\* joint_distribution().  Row and column offsets are 0-based as in the program;
\* a view that does not fit its matrix panics.  The result records every
\* add_assign the call performed (ops) and, when it panicked, the one it
\* panicked at.

get_joint_dim(g) == SumSeq([k \in 1..Len(g.variables) |-> g.variables[k].dofs])

Rows(m) == Len(m)
Cols(m) == IF Len(m) = 0 THEN 0 ELSE Len(m[1])

\* rows(start, n) of a vector / view((r, c), (nr, nc)) of a matrix fit
VecFits(v, start, n) == start + n <= Len(v)
MatFits(m, r, c, nr, nc) == r + nr <= Rows(m) /\ c + nc <= Cols(m)

AddVecBlock(dst, dstart, src, sstart, n) ==
    [k \in 1..Len(dst) |->
        IF k > dstart /\ k <= dstart + n
        THEN RAdd(dst[k], src[sstart + (k - dstart)])
        ELSE dst[k]]

AddMatBlock(dst, dr, dc, src, sr, sc, nr, nc) ==
    [r \in 1..Rows(dst) |-> [c \in 1..Cols(dst) |->
        IF r > dr /\ r <= dr + nr /\ c > dc /\ c <= dc + nc
        THEN RAdd(dst[r][c], src[sr + (r - dr)][sc + (c - dc)])
        ELSE dst[r][c]]]

Op(kind, node, from, to, size) ==
    [kind |-> kind, node |-> node, from |-> from, to |-> to, size |-> size]

\* one add_assign of a vector block onto the joint's information vector
JointAddVec(acc, kind, node, src, sstart, dstart, n) ==
    LET op == Op(kind, node, <<sstart>>, <<dstart>>, <<n>>)
    IN  IF acc.status # "ok" THEN acc
        ELSE IF VecFits(acc.information_vector, dstart, n) /\ VecFits(src, sstart, n)
        THEN [acc EXCEPT
                 !.information_vector = AddVecBlock(@, dstart, src, sstart, n),
                 !.ops = Append(@, op)]
        ELSE [acc EXCEPT !.status = "panic", !.at = op]

\* one add_assign of a matrix block onto the joint's precision matrix
JointAddMat(acc, kind, node, src, sr, sc, dr, dc, nr, nc) ==
    LET op == Op(kind, node, <<sr, sc>>, <<dr, dc>>, <<nr, nc>>)
    IN  IF acc.status # "ok" THEN acc
        ELSE IF MatFits(acc.precision_matrix, dr, dc, nr, nc) /\ MatFits(src, sr, sc, nr, nc)
        THEN [acc EXCEPT
                 !.precision_matrix = AddMatBlock(@, dr, dc, src, sr, sc, nr, nc),
                 !.ops = Append(@, op)]
        ELSE [acc EXCEPT !.status = "panic", !.at = op]

\* the offset at which the priors loop reads a variable's prior
PriorOffset(counter) == counter

\* the loop over the priors, from the k-th variable on
RECURSIVE JointPriors(_, _, _)
JointPriors(g, k, acc) ==
    IF k > Len(g.variables) \/ acc.status # "ok" THEN acc
    ELSE LET node == g.variables[k]
             prior == node.variable.prior
             c == acc.counter
             a1 == [acc EXCEPT !.var_ix[node.id + 1] = c]
             a2 == JointAddVec(a1, "prior", node.id, prior.information_vector,
                               PriorOffset(c), c, node.dofs)
             a3 == JointAddMat(a2, "prior", node.id, prior.precision_matrix,
                               PriorOffset(c), PriorOffset(c), c, c, node.dofs, node.dofs)
         IN  IF a3.status # "ok" THEN a3
             ELSE JointPriors(g, k + 1, [a3 EXCEPT !.counter = c + node.dofs])

\* the block of the joint that receives the factor's (v, w) block
OffDiagonalTarget(var_ix, v, w) == <<var_ix[v + 1], var_ix[v + 1]>>

\* the inner loop over the other neighbours b.. of the factor's neighbour a;
\* the result carries fact_ix, which this loop advances
RECURSIVE JointOthers(_, _, _, _, _, _, _)
JointOthers(g, fnode, a, b, fact_ix, other_fact_ix, acc) ==
    IF b > Len(fnode.adjacent_variables) \/ acc.status # "ok"
    THEN [acc |-> acc, fact_ix |-> fact_ix]
    ELSE LET v == fnode.adjacent_variables[a]
             w == fnode.adjacent_variables[b]
             dv == g.variables[v + 1].dofs
             F == fnode.factor.gaussian.precision_matrix
         IN  IF w > v
             THEN IF w + 1 > Len(g.variables)
                  THEN [acc |-> [acc EXCEPT !.status = "panic",
                                    !.at = Op("index", fnode.id, <<w>>, <<>>, <<>>)],
                        fact_ix |-> fact_ix]
                  ELSE LET dw == g.variables[w + 1].dofs
                           t == OffDiagonalTarget(acc.var_ix, v, w)
                           a1 == JointAddMat(acc, "off", fnode.id, F,
                                     fact_ix, other_fact_ix, t[1], t[2], dv, dv)
                           a2 == JointAddMat(a1, "off", fnode.id, F,
                                     other_fact_ix, fact_ix,
                                     acc.var_ix[w + 1], acc.var_ix[v + 1], dw, dv)
                       IN  JointOthers(g, fnode, a, b + 1, fact_ix + dv,
                                       other_fact_ix + dw, a2)
             ELSE JointOthers(g, fnode, a, b + 1, fact_ix + dv, other_fact_ix, acc)

\* the loop over the neighbours a.. of one factor
RECURSIVE JointNeighbours(_, _, _, _, _)
JointNeighbours(g, fnode, a, fact_ix, acc) ==
    IF a > Len(fnode.adjacent_variables) \/ acc.status # "ok" THEN acc
    ELSE LET v == fnode.adjacent_variables[a]
         IN  IF v + 1 > Len(g.variables)
             THEN [acc EXCEPT !.status = "panic",
                      !.at = Op("index", fnode.id, <<v>>, <<>>, <<>>)]
             ELSE LET dv == g.variables[v + 1].dofs
                      G == fnode.factor.gaussian
                      a1 == JointAddVec(acc, "diag", fnode.id, G.information_vector,
                                        fact_ix, acc.var_ix[v + 1], dv)
                      a2 == JointAddMat(a1, "diag", fnode.id, G.precision_matrix,
                                        fact_ix, fact_ix,
                                        acc.var_ix[v + 1], acc.var_ix[v + 1], dv, dv)
                      r == JointOthers(g, fnode, a, 1, fact_ix, 0, a2)
                  IN  JointNeighbours(g, fnode, a + 1, r.fact_ix, r.acc)

\* the loop over the factors, from the k-th on
RECURSIVE JointFactors(_, _, _)
JointFactors(g, k, acc) ==
    IF k > Len(g.factors) \/ acc.status # "ok" THEN acc
    ELSE JointFactors(g, k + 1, JointNeighbours(g, g.factors[k], 1, 0, acc))

joint_distribution(g) ==
    LET dim == get_joint_dim(g)
        start == [status |-> "ok",
                  information_vector |-> ZeroVec(dim),
                  precision_matrix |-> ZeroMat(dim, dim),
                  var_ix |-> [k \in 1..Len(g.variables) |-> 0],
                  counter |-> 0,
                  ops |-> <<>>,
                  at |-> Op("none", 0, <<>>, <<>>, <<>>)]
    IN  JointFactors(g, 1, JointPriors(g, 1, start))

-----------------------------------------------------------------------------
\* gradient() and gradient_descent_step().  As in joint_distribution(), a
\* rows() or rows_mut() that does not fit its vector panics, and so does the
\* product of a d-vector with a d x d matrix unless d = 1.

\* the running sum of the dofs, each entry counting its own variable
GradientVarIx(g) ==
    [k \in 1..Len(g.variables) |-> SumSeq([j \in 1..k |-> g.variables[j].dofs])]

\* (belief.mean() - prior.mean()) * prior.covariance() of a variable of one dof
PriorGradient(v) ==
    RMul(RSub(Mean1(v.belief), Mean1(v.prior)), RDiv(R(1), Lam1(v.prior)))

\* the loop of gradient() over the priors, from the k-th variable on
RECURSIVE GradientPriors(_, _, _, _)
GradientPriors(g, var_ix, k, acc) ==
    IF k > Len(g.variables) \/ acc.status # "ok" THEN acc
    ELSE LET node == g.variables[k]
             start == var_ix[node.id + 1]
         IN  IF ~VecFits(acc.grad, start, node.dofs)
             THEN [acc EXCEPT !.status = "panic",
                      !.at = Op("rows_mut", node.id, <<>>, <<start>>, <<node.dofs>>)]
             ELSE IF node.dofs # 1
             THEN [acc EXCEPT !.status = "panic",
                      !.at = Op("mul", node.id, <<>>, <<start>>, <<node.dofs>>)]
             ELSE GradientPriors(g, var_ix, k + 1,
                      [acc EXCEPT !.grad[start + 1] =
                          RAdd(@, PriorGradient(node.variable))])

\* the loop over the factors reads residual and measurement model and adds
\* nothing to the gradient
gradient(g, include_priors) ==
    LET start == [status |-> "ok", grad |-> ZeroVec(get_joint_dim(g)),
                  at |-> Op("none", 0, <<>>, <<>>, <<>>)]
    IN  IF include_priors THEN GradientPriors(g, GradientVarIx(g), 1, start)
        ELSE start

\* the mean of a Gaussian of dimension 1 or 2: the solution of lam . x = eta
Mean(g) ==
    LET e == g.information_vector
        L == g.precision_matrix
    IN  IF Len(e) = 1 THEN <<Mean1(g)>>
        ELSE LET det == RSub(RMul(L[1][1], L[2][2]), RMul(L[1][2], L[2][1]))
             IN  <<RDiv(RSub(RMul(L[2][2], e[1]), RMul(L[1][2], e[2])), det),
                   RDiv(RSub(RMul(L[1][1], e[2]), RMul(L[2][1], e[1])), det)>>

MatVec(m, x) == [r \in 1..Rows(m) |-> Dot(m[r], x)]

\* belief.precision_matrix * (belief.mean() - lr * gradient.rows(i, dofs))
StepUpdate(v, lr, slice) ==
    MatVec(v.belief.precision_matrix,
           [k \in 1..Len(slice) |-> RSub(Mean(v.belief)[k], RMul(lr, slice[k]))])

\* the loop of gradient_descent_step() over the variables, from the k-th on;
\* at is the offset of the variable's slice (i in the program)
RECURSIVE StepVariables(_, _, _, _, _)
StepVariables(r, grad, lr, k, at) ==
    IF k > Len(r.g.variables) \/ r.status # "ok" THEN r
    ELSE LET node == r.g.variables[k]
         IN  IF ~VecFits(grad, at, node.dofs)
             THEN [r EXCEPT !.status = "panic"]
             ELSE StepVariables(
                      [r EXCEPT !.g.variables[k].variable.belief.information_vector =
                          StepUpdate(node.variable, lr,
                                     [j \in 1..node.dofs |-> grad[at + j]])],
                      grad, lr, k + 1, at + node.dofs)

\* a panic in gradient() leaves the graph as it was
gradient_descent_step(g, lr) ==
    LET gr == gradient(g, TRUE)
        r == IF gr.status = "ok"
             THEN StepVariables([status |-> "ok", g |-> g], gr.grad, lr, 1, 0)
             ELSE [status |-> "panic", g |-> g]
    IN  IF r.status = "ok" THEN [r EXCEPT !.g = linearise_factors(r.g)] ELSE r

-----------------------------------------------------------------------------
\* solve().  A run r is [g, i, energy_log, count, outcome, energy_trace].

StableEnoughEarly(cnt) == cnt >= 2

\* the test that ends solve() early
StableEnough(cnt) == cnt >= 3

\* the counter of consecutive iterations under the threshold
NextCount(close, cnt) == IF close THEN cnt + 1 ELSE 0

\* the closeness test with a non-strict comparison
CloseOrEqual(log, threshold) == ~RLt(threshold, RAbs(RSub(log[1], log[2])))

\* |energy_log[0] - energy_log[1]| < convergence_threshold
Close(log, threshold) == RLt(RAbs(RSub(log[1], log[2])), threshold)

LoopRunsOnceMore(n, iterations) == n <= iterations

\* the for loop runs while i < iterations
LoopRuns(n, iterations) == n < iterations

StartRun(g) ==
    [g |-> g, i |-> 0, energy_log |-> <<RZero, RZero>>, count |-> 0,
     outcome |-> "running", energy_trace |-> <<>>, computed_log |-> <<>>]

\* the body of the loop after synchronous_iteration(): reset step, energy,
\* convergence test, and the loop's own exit
SolveTail(r, st) ==
    LET g2 == ResetStep(r.g, r.i)
        e == energy(g2, st.include_priors)
        log == <<r.energy_log[2], e>>
        close == Close(log, st.convergence_threshold)
        cnt == NextCount(close, r.count)
        returns == close /\ StableEnough(cnt)
    IN  [r EXCEPT
            !.g = g2,
            !.i = IF returns THEN r.i ELSE r.i + 1,
            !.energy_log = log,
            !.count = cnt,
            !.outcome = IF returns THEN "Converged"
                        ELSE IF LoopRuns(r.i + 1, st.iterations) THEN "running"
                        ELSE "MaxIterationsReached",
            !.energy_trace = Append(r.energy_trace, e)]

\* the ids of the factors whose messages were computed between g and g2
ComputedBetween(g, g2) ==
    {g.factors[k].id : k \in {n \in 1..Len(g.factors) :
        g2.factors[n].factor.messages_sent # g.factors[n].factor.messages_sent}}

\* one whole pass of the loop of solve(), the draws of its message phase given
IterateRun(r, st, d) ==
    LET g1 == synchronous_iteration(r.g, d)
    IN  SolveTail([r EXCEPT !.g = g1,
                            !.computed_log = Append(@, ComputedBetween(r.g, g1))], st)

-----------------------------------------------------------------------------
\* Inputs.

\* rand::random::<f64>() is uniform in [0, 1): the values dropout can take
\* below 1, and one draw above them all
DrawSet ==
    {Q(k, DropoutScale) : k \in 0..(DropoutScale - 1)}
    \cup {Q(2 * DropoutScale - 1, 2 * DropoutScale)}
UnitInterval == {Q(k, DropoutScale) : k \in 0..DropoutScale}

GbpSettingsSet ==
    {[damping |-> c[1], beta |-> c[2], number_of_undamped_iterations |-> c[3],
      minimum_linear_iteration |-> 10, dropout |-> p,
      reset_iterations_since_relinearisation |-> c[4]] :
        c \in {<<RZero, Q(1, 10), 5, <<>>>>,
               <<R(1), RZero, 0, <<0>>>>,
               <<R(1), R(1), 1, <<1>>>>},
        p \in UnitInterval}

SolveSettingsSet ==
    [iterations : {0, 1, MaxIterations},
     convergence_threshold : {RZero, R(4)},
     include_priors : BOOLEAN,
     log : {TRUE}]

LinearUnary == [kind |-> "Linear", J |-> <<R(1)>>, z |-> R(2), W |-> R(1)]
LinearBinary == [kind |-> "Linear", J |-> <<R(1), R(-1)>>, z |-> R(2), W |-> R(1)]
NonLinearModel == [kind |-> "NonLinear", J |-> <<>>, z |-> R(2), W |-> R(1)]

\* a factor whose constructor has (or has not) linearised it already
MakeFactor(model, vs, adj, linearised) ==
    IF linearised THEN FactorCompute(NewFactor(model, Len(adj), Len(adj)), vs, adj)
    ELSE NewFactor(model, Len(adj), Len(adj))

Var0 == NewVariable(Scalar(R(0), R(1)))
Var1 == NewVariable(Scalar(R(2), R(2)))

OneVariable(gs) == add_variable(NewGraph(gs), Var1, 1)
TwoVariables(gs) == add_variable(add_variable(NewGraph(gs), Var0, 1), Var1, 1)

WithFactor(g, model, adj, linearised) ==
    add_factor(g, MakeFactor(model, g.variables, adj, linearised), adj)

SampleGraphs(gs) ==
    {OneVariable(gs),
     WithFactor(OneVariable(gs), NonLinearModel, <<0>>, FALSE),
     WithFactor(WithFactor(TwoVariables(gs), LinearUnary, <<0>>, TRUE),
                LinearBinary, <<0, 1>>, TRUE)}
    \cup {WithFactor(TwoVariables(gs), LinearBinary, <<0, 1>>, b) : b \in BOOLEAN}

-----------------------------------------------------------------------------
\* SimulationManager: the queue of requests and its handler.  The virtual
\* clock, the toasts and the Reloadable entities belong to the engine; the
\* manager never reads them.

None == <<>>
Some(x) == <<x>>

\* the variants of Request
LoadInitial == <<"LoadInitial">>
Load(id) == <<"Load", id>>
Reload == <<"Reload">>
End == <<"End">>

\* the events the handler sends
LoadSimulation(id) == <<"LoadSimulation", id>>
ReloadSimulation(id) == <<"ReloadSimulation", id>>
EndSimulation(id) == <<"EndSimulation", id>>

\* the simulations read from the directory, in the order of their names
Simulations(n) ==
    [k \in 1..n |-> [name |-> k, config |-> 10 + k, environment |-> 20 + k]]

\* SimulationManager::new
NewSimulationManager(sims) ==
    [names |-> [k \in 1..Len(sims) |-> sims[k].name],
     simulations |-> sims,
     active |-> Some(0),
     requests |-> <<Load(0)>>,
     simulations_loaded |-> 0]

\* the resources the plugin inserts for the first simulation
NewWorld(sims) ==
    [config |-> sims[1].config, environment |-> sims[1].environment, sent |-> <<>>]

NoManager == [simulations |-> <<>>]
NoWorld == [sent |-> <<>>]

idsInclusive(m) == 0..Len(m.simulations)

\* the ids a caller can hold
ids(m) == 0..(Len(m.simulations) - 1)

reloadEnqueuesEnd(m) ==
    IF m.active # None THEN [m EXCEPT !.requests = Append(@, End)] ELSE m

reload(m) ==
    IF m.active # None THEN [m EXCEPT !.requests = Append(@, Reload)] ELSE m

load(m, id) == [m EXCEPT !.requests = Append(@, Load(id))]

pop_back(q) ==
    [request |-> q[Len(q)], rest |-> SubSeq(q, 1, Len(q) - 1)]

\* requests.pop_front() on a queue that is not empty
pop_front(q) == [request |-> Head(q), rest |-> Tail(q)]

AlreadyLoadedWheneverActive(m, id) == m.active = Some(id)

\* the guard of the arm that refuses a Load
AlreadyLoaded(m, id) == m.active = Some(id) /\ m.simulations_loaded > 0

\* the match on the request taken from the queue; m is the manager after
\* the pop
HandleRequest(request, m, w) ==
    IF request = LoadInitial
    THEN [status |-> "panic", m |-> m, w |-> w]
    ELSE IF request[1] = "Load"
    THEN LET id == request[2]
         IN  IF AlreadyLoaded(m, id)
             THEN [status |-> "ok", m |-> m, w |-> w]
             ELSE IF id >= Len(m.simulations)
             THEN [status |-> "panic", m |-> [m EXCEPT !.active = Some(id)], w |-> w]
             ELSE [status |-> "ok",
                   m |-> [m EXCEPT !.active = Some(id),
                                   !.simulations_loaded = @ + 1],
                   w |-> [w EXCEPT !.config = m.simulations[id + 1].config,
                                   !.environment = m.simulations[id + 1].environment,
                                   !.sent = Append(@, LoadSimulation(id))]]
    ELSE IF request = Reload
    THEN IF m.active # None
         THEN [status |-> "ok",
               m |-> [m EXCEPT !.simulations_loaded = @ + 1],
               w |-> [w EXCEPT !.sent = Append(@, ReloadSimulation(m.active[1]))]]
         ELSE [status |-> "ok", m |-> m, w |-> w]
    ELSE IF m.active # None
         THEN [status |-> "ok",
               m |-> [m EXCEPT !.active = None],
               w |-> [w EXCEPT !.sent = Append(@, EndSimulation(m.active[1]))]]
         ELSE [status |-> "ok", m |-> m, w |-> w]

\* one run of the system handle_requests; sent holds the events of this run
handle_requests(m, w) ==
    LET w0 == [w EXCEPT !.sent = <<>>]
    IN  IF m.requests = <<>> THEN [status |-> "ok", m |-> m, w |-> w0]
        ELSE LET p == pop_front(m.requests)
             IN  HandleRequest(p.request, [m EXCEPT !.requests = p.rest], w0)

-----------------------------------------------------------------------------
\* The solver as a state machine: one call of solve() on a graph.

Graph == [factors |-> factors, variables |-> variables, gbp_settings |-> gbp_settings]

Run == [g |-> Graph, i |-> i, energy_log |-> energy_log, count |-> count,
        outcome |-> outcome, energy_trace |-> energy_trace, computed_log |-> <<>>]

NoJoint == [status |-> "none"]
NoRun == [outcome |-> "none"]

Init ==
    /\ gbp_settings \in GbpSettingsSet
    /\ \E g \in SampleGraphs(gbp_settings) :
          /\ factors = g.factors
          /\ variables = g.variables
    /\ pc = "ready"
    /\ settings = [iterations |-> 0, convergence_threshold |-> RZero,
                   include_priors |-> TRUE, log |-> TRUE]
    /\ i = 0
    /\ energy_log = <<RZero, RZero>>
    /\ count = 0
    /\ outcome = "none"
    /\ apply_dropout = FALSE
    /\ draws = <<>>
    /\ energy_trace = <<>>
    /\ computed = {}
    /\ joint = NoJoint
    /\ simulation_manager = NoManager
    /\ world = NoWorld
    /\ runA = NoRun
    /\ runB = NoRun

unused == <<joint, runA, runB, simulation_manager, world>>

\* solve(settings) is entered
Solve ==
    /\ pc = "ready"
    /\ \E st \in SolveSettingsSet :
          /\ settings' = st
          /\ pc' = IF LoopRuns(0, st.iterations) THEN "robustify" ELSE "done"
          /\ outcome' = IF LoopRuns(0, st.iterations) THEN "running"
                        ELSE "MaxIterationsReached"
    /\ i' = 0
    /\ energy_log' = <<RZero, RZero>>
    /\ count' = 0
    /\ energy_trace' = <<>>
    /\ UNCHANGED <<factors, variables, gbp_settings, apply_dropout, draws, computed, unused>>

RobustifyFactors ==
    /\ pc = "robustify"
    /\ factors' = robustify_factors(Graph).factors
    /\ pc' = "jit"
    /\ UNCHANGED <<variables, gbp_settings, settings, i, energy_log, count, outcome,
                   apply_dropout, draws, energy_trace, computed, unused>>

\* synchronous_iteration() with update_beliefs() called ahead of compute_messages()
JitLinearisationThenBeliefs ==
    /\ pc = "jit"
    /\ factors' = jit_linearisation(Graph).factors
    /\ pc' = "beliefs"
    /\ UNCHANGED <<variables, gbp_settings, settings, i, energy_log, count, outcome,
                   apply_dropout, draws, energy_trace, computed, unused>>

JitLinearisation ==
    /\ pc = "jit"
    /\ factors' = jit_linearisation(Graph).factors
    /\ pc' = "messages"
    /\ UNCHANGED <<variables, gbp_settings, settings, i, energy_log, count, outcome,
                   apply_dropout, draws, energy_trace, computed, unused>>

ComputeMessages ==
    /\ pc = "messages"
    /\ \E d \in [1..Len(factors) -> DrawSet] :
          LET g2 == compute_messages(Graph, TRUE, d)
          IN  /\ factors' = g2.factors
              /\ variables' = g2.variables
              /\ draws' = d
              /\ computed' = ComputedBetween(Graph, g2)
    /\ apply_dropout' = TRUE
    /\ pc' = "beliefs"
    /\ UNCHANGED <<gbp_settings, settings, i, energy_log, count, outcome,
                   energy_trace, unused>>

UpdateBeliefs ==
    /\ pc = "beliefs"
    /\ variables' = update_beliefs(Graph).variables
    /\ pc' = "check"
    /\ draws' = <<>>
    /\ computed' = {}
    /\ UNCHANGED <<factors, gbp_settings, settings, i, energy_log, count, outcome,
                   apply_dropout, energy_trace, unused>>

SolveCheck ==
    /\ pc = "check"
    /\ LET r == SolveTail(Run, settings)
       IN  /\ factors' = r.g.factors
           /\ i' = r.i
           /\ energy_log' = r.energy_log
           /\ count' = r.count
           /\ outcome' = r.outcome
           /\ energy_trace' = r.energy_trace
           /\ pc' = IF r.outcome = "running" THEN "robustify" ELSE "done"
    /\ UNCHANGED <<variables, gbp_settings, settings, apply_dropout, draws, computed, unused>>

Next ==
    \/ Solve
    \/ RobustifyFactors
    \/ JitLinearisation
    \/ ComputeMessages
    \/ UpdateBeliefs
    \/ SolveCheck

Spec == Init /\ [][Next]_vars

-----------------------------------------------------------------------------
\* Building a graph and querying its joint distribution.  The variable joint
\* holds the result of the last call for as long as the graph stays as it was.

Min(a, b) == IF a < b THEN a ELSE b
Max(a, b) == IF a < b THEN b ELSE a

\* a symmetric Gaussian of dimension d whose entries tell its blocks apart
SampleGaussian(base, d) ==
    Gaussian([k \in 1..d |-> R(base + k)],
             [r \in 1..d |-> [c \in 1..d |-> R(base + 10 * Min(r, c) + Max(r, c))]])

DefaultGbpSettings ==
    [damping |-> RZero, beta |-> Q(1, 10), number_of_undamped_iterations |-> 5,
     minimum_linear_iteration |-> 10, dropout |-> RZero,
     reset_iterations_since_relinearisation |-> <<>>]

\* adjacency lists handed to add_factor: one or two distinct variable ids
AdjacencyLists ==
    {<<v>> : v \in 0..(MaxVariables - 1)}
    \cup ({<<v, w>> : v, w \in 0..(MaxVariables - 1)}
              \ {<<v, v>> : v \in 0..(MaxVariables - 1)})

\* the dimension of a factor over these neighbours
FactorDim(vs, adj) ==
    SumSeq([k \in 1..Len(adj) |->
        IF adj[k] + 1 <= Len(vs) THEN vs[adj[k] + 1].dofs ELSE 1])

\* a linearised factor over the neighbours adj
SampleFactor(id, vs, adj) ==
    [NewFactor([kind |-> "Linear", J |-> ZeroVec(FactorDim(vs, adj)), z |-> RZero,
                W |-> R(1)], Len(adj), FactorDim(vs, adj))
        EXCEPT !.gaussian = SampleGaussian(1000 * (id + 1), FactorDim(vs, adj)),
               !.computes = 1]

JointInit ==
    /\ gbp_settings = DefaultGbpSettings
    /\ factors = <<>>
    /\ variables = <<>>
    /\ pc = "build"
    /\ settings = [iterations |-> 0, convergence_threshold |-> RZero,
                   include_priors |-> TRUE, log |-> TRUE]
    /\ i = 0
    /\ energy_log = <<RZero, RZero>>
    /\ count = 0
    /\ outcome = "none"
    /\ apply_dropout = FALSE
    /\ draws = <<>>
    /\ energy_trace = <<>>
    /\ computed = {}
    /\ joint = NoJoint
    /\ simulation_manager = NoManager
    /\ world = NoWorld
    /\ runA = NoRun
    /\ runB = NoRun

solve_state == <<settings, i, energy_log, count, outcome, apply_dropout, draws,
                 energy_trace, computed, runA, runB, simulation_manager, world>>

AddVariable ==
    /\ pc \in {"build", "joint"}
    /\ Len(variables) < MaxVariables
    /\ \E dofs \in 1..MaxDofs :
          variables' = add_variable(Graph,
              NewVariable(SampleGaussian(100 * (Len(variables) + 1), dofs)), dofs).variables
    /\ pc' = "build"
    /\ joint' = NoJoint
    /\ UNCHANGED <<factors, gbp_settings, solve_state>>

AddFactor ==
    /\ pc \in {"build", "joint"}
    /\ Len(factors) < MaxFactors
    /\ \E adj \in AdjacencyLists :
          factors' = add_factor(Graph, SampleFactor(Len(factors), variables, adj), adj).factors
    /\ pc' = "build"
    /\ joint' = NoJoint
    /\ UNCHANGED <<variables, gbp_settings, solve_state>>

JointDistribution ==
    /\ pc = "build"
    /\ joint' = joint_distribution(Graph)
    /\ pc' = "joint"
    /\ UNCHANGED <<factors, variables, gbp_settings, solve_state>>

\* learning rates in (0, 1]
LearningRates == {Q(1, 2), R(1)}

\* every factor of g names variables of g only
WellFormedGraph(g) ==
    \A k \in 1..Len(g.factors) : \A a \in 1..Len(g.factors[k].adjacent_variables) :
        g.factors[k].adjacent_variables[a] < Len(g.variables)

\* gradient_descent_step(lr) on a graph whose factors name variables of the
\* graph; a panic ends the program with the graph as it was
GradientDescentStep ==
    /\ pc = "build"
    /\ WellFormedGraph(Graph)
    /\ \E lr \in LearningRates :
          LET r == gradient_descent_step(Graph, lr)
          IN  /\ variables' = r.g.variables
              /\ factors' = r.g.factors
              /\ pc' = IF r.status = "ok" THEN "stepped" ELSE "panic"
    /\ UNCHANGED <<gbp_settings, joint, solve_state>>

JointNext ==
    \/ AddVariable
    \/ AddFactor
    \/ JointDistribution
    \/ GradientDescentStep

SpecJoint == JointInit /\ [][JointNext]_vars

-----------------------------------------------------------------------------
\* Two calls of solve() on copies of one graph with the same settings, one
\* after the other.  The draws of each call come from rand::random().

PairSolveSettings ==
    [iterations : {PairIterations}, convergence_threshold : {Q(1, 4)},
     include_priors : {TRUE}, log : {TRUE}]

PairGraphs(gs) == {g \in SampleGraphs(gs) : Len(g.factors) > 0 /\ Len(g.variables) > 1}

PairInit ==
    /\ gbp_settings \in GbpSettingsSet
    /\ \E g \in PairGraphs(gbp_settings) :
          /\ factors = g.factors
          /\ variables = g.variables
          /\ runA = StartRun(g)
          /\ runB = StartRun(g)
    /\ settings \in PairSolveSettings
    /\ pc = "pair"
    /\ i = 0
    /\ energy_log = <<RZero, RZero>>
    /\ count = 0
    /\ outcome = "none"
    /\ apply_dropout = FALSE
    /\ draws = <<>>
    /\ energy_trace = <<>>
    /\ computed = {}
    /\ joint = NoJoint
    /\ simulation_manager = NoManager
    /\ world = NoWorld

pair_frame == <<factors, variables, gbp_settings, pc, settings, i, energy_log, count,
                outcome, apply_dropout, draws, energy_trace, computed, joint,
                simulation_manager, world>>

IterateA ==
    /\ pc = "pair"
    /\ runA.outcome = "running"
    /\ \E d \in [1..Len(factors) -> DrawSet] : runA' = IterateRun(runA, settings, d)
    /\ UNCHANGED <<runB, pair_frame>>

IterateB ==
    /\ pc = "pair"
    /\ runA.outcome \in {"Converged", "MaxIterationsReached"}
    /\ runB.outcome = "running"
    /\ \E d \in [1..Len(factors) -> DrawSet] : runB' = IterateRun(runB, settings, d)
    /\ UNCHANGED <<runA, pair_frame>>

PairNext ==
    \/ IterateA
    \/ IterateB

SpecPair == PairInit /\ [][PairNext]_vars

-----------------------------------------------------------------------------
\* solve() under a damping that is not 0, a short undamped window and no
\* reset iteration, on graphs of linear factors linearised at construction.

DampedSettingsSet ==
    {[damping |-> R(1), beta |-> Q(1, 10), number_of_undamped_iterations |-> u,
      minimum_linear_iteration |-> 10, dropout |-> p,
      reset_iterations_since_relinearisation |-> <<>>] :
        u \in {0, 1}, p \in UnitInterval}

LinearGraphs(gs) ==
    {g \in SampleGraphs(gs) :
        /\ Len(g.factors) > 0
        /\ \A k \in 1..Len(g.factors) :
              /\ g.factors[k].factor.model.kind = "Linear"
              /\ g.factors[k].factor.computes > 0}

DampingInit ==
    /\ gbp_settings \in DampedSettingsSet
    /\ \E g \in LinearGraphs(gbp_settings) :
          /\ factors = g.factors
          /\ variables = g.variables
    /\ pc = "ready"
    /\ settings = [iterations |-> 0, convergence_threshold |-> RZero,
                   include_priors |-> TRUE, log |-> TRUE]
    /\ i = 0
    /\ energy_log = <<RZero, RZero>>
    /\ count = 0
    /\ outcome = "none"
    /\ apply_dropout = FALSE
    /\ draws = <<>>
    /\ energy_trace = <<>>
    /\ computed = {}
    /\ joint = NoJoint
    /\ simulation_manager = NoManager
    /\ world = NoWorld
    /\ runA = NoRun
    /\ runB = NoRun

SpecDamping == DampingInit /\ [][Next]_vars

-----------------------------------------------------------------------------
\* Properties of solve().

RLe(a, b) == a[1] * b[2] <= b[1] * a[2]

\* the energy solve() holds as "previous" in pass k (1-based) is the one of
\* pass k - 1, and 0 in the first pass
TraceAt(k) == IF k = 0 THEN RZero ELSE energy_trace[k]

\* |energy_prev - energy_now| < convergence_threshold held in pass k
StableAt(k) ==
    LET a == TraceAt(k - 1)
        b == TraceAt(k)
        diff == IF RLe(a, b) THEN RSub(b, a) ELSE RSub(a, b)
    IN  ~RLe(settings.convergence_threshold, diff)

ThreeStableEndingAt(k) ==
    k >= 3 /\ StableAt(k) /\ StableAt(k - 1) /\ StableAt(k - 2)

Passes == Len(energy_trace)

\* C1: solve() ends with Converged in pass i exactly when the energy moved by
\* less than the threshold in three consecutive passes ending at i; it never
\* runs on after such a pass; and it ends with MaxIterationsReached exactly
\* when settings.iterations passes were run without that happening.
ConvergedExactlyAfterThreeStable ==
    /\ (outcome = "Converged") <=> (pc = "done" /\ ThreeStableEndingAt(Passes))
    /\ outcome = "Converged" => i = Passes - 1
    /\ \A k \in 1..(Passes - 1) : ~ThreeStableEndingAt(k)
    /\ (outcome = "MaxIterationsReached") <=>
           (pc = "done" /\ Passes = settings.iterations /\ ~ThreeStableEndingAt(Passes))

\* a run that converged in its fourth pass: the first pass was not stable
ConvergedAfterUnstablePass ==
    /\ outcome = "Converged"
    /\ Passes = 4
    /\ ~StableAt(1)

BoundedPasses ==
    /\ pc \in {"ready", "robustify", "jit", "messages", "beliefs", "check", "done"}
    /\ Passes <= settings.iterations
    /\ i <= settings.iterations
    /\ (pc = "done" /\ Passes < settings.iterations) => outcome = "Converged" /\ count >= 3
    /\ pc = "done" => outcome \in {"Converged", "MaxIterationsReached"}

PhaseIndex ==
    CASE pc = "robustify" -> 0
      [] pc = "jit" -> 1
      [] pc = "messages" -> 2
      [] pc = "beliefs" -> 3
      [] pc = "check" -> 4
      [] OTHER -> 0

\* the number of steps solve() has left at most
Variant ==
    CASE pc = "done" -> 0
      [] pc = "ready" -> 5 * MaxIterations + 1
      [] OTHER -> 5 * (settings.iterations - Passes) - PhaseIndex

\* C2: solve() terminates: until it is done it stands at a step of its loop,
\* every step brings it closer to the end, it runs at most settings.iterations
\* passes and stops before that number only by convergence.
SolveTerminates ==
    /\ []BoundedPasses
    /\ [][Variant' < Variant /\ Variant' >= 0]_vars

\* a run that stopped early, and by convergence
StoppedEarly ==
    /\ pc = "done"
    /\ Passes < settings.iterations
    /\ outcome = "Converged"

\* C3: after a message phase, a factor was skipped exactly when dropout was
\* applied and its draw was <= dropout; every other factor computed the
\* message to each of its neighbours.
SkippedExactlyOnDropout ==
    pc = "beliefs" =>
        \A k \in 1..Len(factors) :
            /\ (factors[k].id \notin computed) <=>
                   (apply_dropout /\ RLe(draws[k], gbp_settings.dropout))
            /\ factors[k].id \in computed =>
                   \A n \in 1..Len(factors[k].adjacent_variables) :
                       LET v == variables[factors[k].adjacent_variables[n] + 1].variable
                       IN  /\ factors[k].id \in DOMAIN v.inbox
                           /\ v.inbox[factors[k].id] = factors[k].factor.outbox[n]

\* a message phase in which one factor drew exactly dropout and was skipped
\* while another one computed its messages
SkippedAtBoundary ==
    /\ pc = "beliefs"
    /\ \E k \in 1..Len(factors) :
          draws[k] = gbp_settings.dropout /\ factors[k].id \notin computed
    /\ \E k \in 1..Len(factors) : factors[k].id \in computed

\* C6: with dropout = 1 no factor ever computes a message and every belief
\* stays equal to its prior, whatever the number of passes.
BeliefsStayPriorUnderFullDropout ==
    gbp_settings.dropout = R(1) =>
        /\ \A k \in 1..Len(variables) :
              variables[k].variable.belief = variables[k].variable.prior
        /\ \A k \in 1..Len(factors) : factors[k].factor.messages_sent = 0

\* a finished run of several passes under dropout = 1 on a graph whose factors
\* hold a message to send
FullDropoutRunFinished ==
    /\ gbp_settings.dropout = R(1)
    /\ pc = "done"
    /\ Passes >= 2
    /\ \E k \in 1..Len(factors) :
          factors[k].factor.gaussian # ZeroGaussian(Len(factors[k].adjacent_variables))

FactorEnergies ==
    [k \in 1..Len(factors) |->
        FactorEnergy(factors[k].factor, variables, factors[k].adjacent_variables)]

PriorEnergies == [k \in 1..Len(variables) |-> PriorEnergy(variables[k].variable)]

EnergySum(include_priors) ==
    IF include_priors THEN RAdd(RSumSeq(FactorEnergies), RSumSeq(PriorEnergies))
    ELSE RSumSeq(FactorEnergies)

\* C10: energy(include_priors) is the sum of the factor energies plus, only
\* when include_priors is set, the sum of the prior energies; so is the value
\* solve() has just logged.
EnergyIsSumOfParts ==
    /\ pc \in {"ready", "check", "done"} =>
           \A b \in BOOLEAN : energy(Graph, b) = EnergySum(b)
    /\ (pc \in {"robustify", "done"} /\ Passes > 0) =>
           energy_trace[Passes] = EnergySum(settings.include_priors)

\* an energy taken without the priors although the priors have energy
EnergyWithoutPriors ==
    /\ pc = "done"
    /\ Passes > 0
    /\ ~settings.include_priors
    /\ RSumSeq(PriorEnergies) # RZero
    /\ RSumSeq(FactorEnergies) # RZero

-----------------------------------------------------------------------------
\* Properties of two runs of solve() from the same graph and settings.

Finished(r) == r.outcome \in {"Converged", "MaxIterationsReached"}

\* C4: with dropout = 0 the two runs compute messages for the same factors in
\* every pass and end in the same state, whatever was drawn.
DropoutZeroIsDeterministic ==
    runA.g.gbp_settings.dropout = RZero =>
        /\ \A k \in 1..Min(Len(runA.computed_log), Len(runB.computed_log)) :
              runA.computed_log[k] = runB.computed_log[k]
        /\ (Finished(runA) /\ Finished(runB)) => runA.g = runB.g

\* C5: two runs from the same solver state (graph and settings; the solver
\* holds nothing else) log the same energies.  Stated for 0 < dropout < 1,
\* where the draws are meant to decide.
SameStateSameEnergyTrace ==
    (/\ RLt(RZero, runA.g.gbp_settings.dropout)
     /\ RLt(runA.g.gbp_settings.dropout, R(1))
     /\ Finished(runA)
     /\ Finished(runB)) => runA.energy_trace = runB.energy_trace


-----------------------------------------------------------------------------
\* Properties of joint_distribution(), read off the call's result once the
\* graph has been built (pc = "joint").

\* the cumulative offset of variable id: the dofs of the variables before it
Offset(id) == SumSeq([k \in 1..id |-> variables[k].dofs])

\* the call performed this add_assign
HasOp(kind, node, from, to, size) ==
    \E n \in 1..Len(joint.ops) : joint.ops[n] = Op(kind, node, from, to, size)

\* the call added a block of this factor's off-diagonal scatter at (r, c)
HasOffBlockAt(node, r, c) ==
    \E n \in 1..Len(joint.ops) :
        /\ joint.ops[n].kind = "off"
        /\ joint.ops[n].node = node
        /\ joint.ops[n].to = <<r, c>>

\* the ordered pairs of distinct neighbours of a factor that are variables
NeighbourPairs(fnode) ==
    {<<fnode.adjacent_variables[a], fnode.adjacent_variables[b]>> :
        a, b \in {n \in 1..Len(fnode.adjacent_variables) :
                     fnode.adjacent_variables[n] < Len(variables)}}
    \ {<<v, v>> : v \in 0..MaxVariables}

IsSymmetric(m) == \A r \in 1..Rows(m) : \A c \in 1..Cols(m) : m[r][c] = m[c][r]

\* every factor names variables of the graph only
WellFormed ==
    \A k \in 1..Len(factors) : \A a \in 1..Len(factors[k].adjacent_variables) :
        factors[k].adjacent_variables[a] < Len(variables)

\* C7: for every factor and every ordered pair (v, w) of distinct neighbours,
\* the factor's (v, w) block is added at (var_ix[v], var_ix[w]) of the joint
\* and no off-diagonal block is added onto the diagonal (var_ix[v], var_ix[v]).
OffDiagonalBlocksScattered ==
    pc = "joint" =>
        \A k \in 1..Len(factors) :
            \A p \in NeighbourPairs(factors[k]) :
                /\ HasOffBlockAt(factors[k].id, Offset(p[1]), Offset(p[2]))
                /\ ~HasOffBlockAt(factors[k].id, Offset(p[1]), Offset(p[1]))

\* C8: with symmetric priors and factor precisions the call returns a
\* symmetric precision matrix, and for every pair of neighbours of a factor
\* both the (v, w) block and the (w, v) block are added.
JointIsSymmetric ==
    (pc = "joint" /\ WellFormed) =>
        /\ joint.status = "ok"
        /\ IsSymmetric(joint.precision_matrix)
        /\ \A k \in 1..Len(factors) :
              \A p \in NeighbourPairs(factors[k]) :
                  /\ HasOffBlockAt(factors[k].id, Offset(p[1]), Offset(p[2]))
                  /\ HasOffBlockAt(factors[k].id, Offset(p[2]), Offset(p[1]))

\* C9: the joint has dimension sum of dofs, var_ix[id] is the sum of the dofs
\* of the variables with smaller id, and every variable's whole prior, read
\* from offset 0 of the prior, is added at var_ix[id] with no access out of
\* range.
PriorsAddedWholeInRange ==
    pc = "joint" =>
        /\ Len(joint.information_vector) = get_joint_dim(Graph)
        /\ Rows(joint.precision_matrix) = get_joint_dim(Graph)
        /\ joint.at.kind # "prior"
        /\ \A k \in 1..Len(variables) :
              LET id == variables[k].id
                  d == variables[k].dofs
              IN  /\ joint.var_ix[id + 1] = Offset(id)
                  /\ HasOp("prior", id, <<0>>, <<Offset(id)>>, <<d>>)
                  /\ HasOp("prior", id, <<0, 0>>, <<Offset(id), Offset(id)>>, <<d, d>>)

-----------------------------------------------------------------------------
\* Properties of a graph with one variable and no factor under solve().

LoneVariable == Len(variables) = 1 /\ Len(factors) = 0

\* C11: on a graph with one variable and no factor solve() is a no-op: the
\* graph stays as built, the belief equals the prior, and the energy without
\* priors is 0, as is every energy solve() logged without priors.
SolveOnLoneVariableIsNoOp ==
    LoneVariable =>
        /\ Graph = OneVariable(gbp_settings)
        /\ variables[1].variable.belief = variables[1].variable.prior
        /\ energy(Graph, FALSE) = RZero
        /\ ~settings.include_priors => \A k \in 1..Passes : energy_trace[k] = RZero

\* a finished run of several passes on the lone variable, energies without priors
LoneVariableSolved ==
    /\ LoneVariable
    /\ pc = "done"
    /\ Passes >= 2
    /\ ~settings.include_priors

-----------------------------------------------------------------------------
\* Properties of add_variable() and add_factor().

DenseIds(nodes) == \A k \in 1..Len(nodes) : nodes[k].id = k - 1

\* the node an insertion appended carries the number of nodes before it
InsertedWithCount(before, after) ==
    Len(after) > Len(before) =>
        /\ Len(after) = Len(before) + 1
        /\ after[Len(after)].id = Len(before)

\* C12: after any sequence of add_variable and add_factor calls the node at
\* index i has id i, for variables and for factors, and every insertion gives
\* the new node the number of nodes of its kind that existed before.
IdsAreDenseIndices ==
    /\ [](DenseIds(variables) /\ DenseIds(factors))
    /\ [][InsertedWithCount(variables, variables')
          /\ InsertedWithCount(factors, factors')]_vars

\* a graph in which a factor was added after more variables than factors
TwoVariablesTwoFactors ==
    /\ pc = "build"
    /\ Len(variables) = 2
    /\ Len(factors) = 2

\* C13: every id in every factor's adjacency list is the id of a variable of
\* the graph, after any sequence of insertions: add_factor never stores a
\* factor naming an id that no variable of the graph has.
AdjacencyRefersToVariables ==
    /\ []WellFormed
    /\ [][Len(factors') > Len(factors) =>
             \A a \in 1..Len(factors'[Len(factors')].adjacent_variables) :
                 factors'[Len(factors')].adjacent_variables[a] < Len(variables)]_vars

-----------------------------------------------------------------------------
\* Properties of the settings solve() runs with.

InUnitInterval(x) == RLe(RZero, x) /\ RLe(x, R(1))

\* C14: solve() never runs with invalid settings: once it has been entered,
\* settings.iterations is not 0 and dropout lies in [0, 1].
SolveRunsOnValidSettings ==
    pc # "ready" =>
        /\ settings.iterations # 0
        /\ InUnitInterval(gbp_settings.dropout)

-----------------------------------------------------------------------------
\* Properties of gradient_descent_step().

SameTopology(vs, vs2, fs, fs2) ==
    /\ Len(vs2) = Len(vs)
    /\ Len(fs2) = Len(fs)
    /\ \A k \in 1..Len(vs) : vs2[k].id = vs[k].id /\ vs2[k].dofs = vs[k].dofs
    /\ \A k \in 1..Len(fs) :
          /\ fs2[k].id = fs[k].id
          /\ fs2[k].adjacent_variables = fs[k].adjacent_variables

\* C15: a call of gradient_descent_step() completes, changes of the variables
\* only the information vector of the belief (precision, prior and topology
\* stay), and runs compute() once on every factor.
GradientStepKeepsAllButInformation ==
    [][(pc = "build" /\ pc' \in {"stepped", "panic"}) =>
          /\ pc' = "stepped"
          /\ SameTopology(variables, variables', factors, factors')
          /\ \A k \in 1..Len(variables) :
                /\ variables'[k].variable.prior = variables[k].variable.prior
                /\ variables'[k].variable.belief.precision_matrix =
                       variables[k].variable.belief.precision_matrix
          /\ \A k \in 1..Len(factors) :
                factors'[k].factor.computes = factors[k].factor.computes + 1]_vars

-----------------------------------------------------------------------------
\* Properties of the phases of synchronous_iteration().

\* the phase that follows phase p within an iteration
Follows(p, q) ==
    \/ p = "robustify" /\ q = "jit"
    \/ p = "jit" /\ q = "messages"
    \/ p = "messages" /\ q = "beliefs"
    \/ p = "beliefs" /\ q = "check"

Phases == {"robustify", "jit", "messages", "beliefs"}

\* every message a factor has sent is the one its neighbour holds
MessagesDelivered ==
    \A k \in 1..Len(factors) :
        factors[k].factor.messages_sent > 0 =>
            \A n \in 1..Len(factors[k].adjacent_variables) :
                LET v == variables[factors[k].adjacent_variables[n] + 1].variable
                IN  /\ factors[k].id \in DOMAIN v.inbox
                    /\ v.inbox[factors[k].id] = factors[k].factor.outbox[n]

\* every belief is the prior plus the messages the variable holds
BeliefsUpToDate ==
    \A k \in 1..Len(variables) :
        variables[k].variable.belief =
            SumGaussians(variables[k].variable.inbox,
                         DOMAIN variables[k].variable.inbox,
                         variables[k].variable.prior)

\* C16: an iteration runs robustify, JIT linearisation, compute messages and
\* update beliefs in this order, one whole phase at a time; the message phase
\* changes no belief, the belief phase no message, and when the iteration's
\* phases are over every belief includes every message computed in it.
PhasesRunInOrder ==
    /\ [][(pc \in Phases) => Follows(pc, pc')]_vars
    /\ [][pc = "messages" =>
             \A k \in 1..Len(variables) :
                 variables'[k].variable.belief = variables[k].variable.belief]_vars
    /\ [][pc = "beliefs" => factors' = factors]_vars
    /\ [](pc = "check" => MessagesDelivered /\ BeliefsUpToDate)

\* the end of the phases of a second iteration in which a factor sent a
\* message that moved a belief
SecondIterationDone ==
    /\ pc = "check"
    /\ Passes = 1
    /\ \E k \in 1..Len(factors) : factors[k].factor.messages_sent = 2
    /\ \E k \in 1..Len(variables) :
          variables[k].variable.belief # variables[k].variable.prior

-----------------------------------------------------------------------------
\* Properties of the damping schedule.

\* C17: damping(n) is 0 for every n <= number_of_undamped_iterations and the
\* configured damping for every n above it.
DampingIsZeroThenConfigured ==
    \A n \in 0..MaxCounter :
        /\ n <= gbp_settings.number_of_undamped_iterations =>
               Damping(gbp_settings, n) = RZero
        /\ n > gbp_settings.number_of_undamped_iterations =>
               Damping(gbp_settings, n) = gbp_settings.damping

\* a message phase that computed the messages of a factor past its undamped
\* iterations, under a damping that is not 0
DampedMessagePhase ==
    /\ pc = "beliefs"
    /\ gbp_settings.damping # RZero
    /\ \E k \in 1..Len(factors) :
          /\ factors[k].id \in computed
          /\ factors[k].iterations_since_relinearisation >
                 gbp_settings.number_of_undamped_iterations

-----------------------------------------------------------------------------
\* Properties of FactorNode.iterations_since_relinearisation.

Counter(fs, k) == fs[k].iterations_since_relinearisation

\* C18: a message phase adds one to the counter of every factor whose messages
\* it computed and leaves the counter of every dropped factor as it was.
CounterCountsMessageComputations ==
    [][pc = "messages" =>
          \A k \in 1..Len(factors) :
              Counter(factors', k) =
                  IF factors[k].id \in computed' THEN Counter(factors, k) + 1
                  ELSE Counter(factors, k)]_vars

\* C19: whenever compute() has been run again on a factor, by the JIT step or
\* by linearising all factors, the factor's counter is 0 right afterwards.
CounterZeroAfterRelinearisation ==
    [][\A k \in 1..Len(factors) :
          (Len(factors') = Len(factors)
           /\ factors'[k].factor.computes # factors[k].factor.computes) =>
              Counter(factors', k) = 0]_vars

NoResetConfigured == gbp_settings.reset_iterations_since_relinearisation = <<>>

\* the message computations of a linear factor since it was linearised
SentSinceRelinearisation(k) == factors[k].factor.messages_sent

\* C20: with no reset iteration configured, once more than
\* number_of_undamped_iterations message computations have happened for a
\* factor since its last relinearisation, a message phase that computes the
\* factor's messages computes them with the configured damping.
DampedAfterUndampedWindow ==
    [][(pc = "messages" /\ NoResetConfigured) =>
          \A k \in 1..Len(factors) :
              (/\ factors[k].factor.model.kind = "Linear"
               /\ factors[k].id \in computed'
               /\ SentSinceRelinearisation(k) >
                      gbp_settings.number_of_undamped_iterations) =>
                  factors'[k].factor.outbox =
                      FactorComputeMessages(factors[k].factor, factors[k].id, variables,
                          factors[k].adjacent_variables, gbp_settings.damping).outbox]_vars

-----------------------------------------------------------------------------
\* Properties of the reset step of solve().

InResetList(n) ==
    \E k \in 1..Len(gbp_settings.reset_iterations_since_relinearisation) :
        gbp_settings.reset_iterations_since_relinearisation[k] = n

\* C21: the step of solve() that follows synchronous iteration i sets every
\* factor's counter to 1 when i is in reset_iterations_since_relinearisation
\* and changes no counter otherwise; the energy it then logs is the energy of
\* the graph after the reset.
ResetSetsCountersToOne ==
    [][pc = "check" =>
          /\ \A k \in 1..Len(factors) :
                Counter(factors', k) = IF InResetList(i) THEN 1 ELSE Counter(factors, k)
          /\ energy_trace'[Len(energy_trace')] =
                 energy([Graph EXCEPT !.factors = factors'], settings.include_priors)]_vars

\* after the second pass of a solve that resets at loop index 1 only
ResetInSecondPass ==
    /\ pc \in {"robustify", "done"}
    /\ Passes = 2
    /\ gbp_settings.reset_iterations_since_relinearisation = <<1>>
    /\ Len(factors) > 0
    /\ \A k \in 1..Len(factors) : Counter(factors, k) = 1

-----------------------------------------------------------------------------
\* Properties of the JIT linearisation step.

\* squared distance between the adjacency mean of factor k and its cached
\* linearisation point
DriftSquared(k) ==
    LET adj == factors[k].adjacent_variables
        p == factors[k].factor.linearisation_point
    IN  RSumSeq([n \in 1..Len(adj) |->
            LET d == RSub(Mean1(variables[adj[n] + 1].variable.belief), p[n])
            IN  RMul(d, d)])

BeyondBeta(k) == RLt(RMul(gbp_settings.beta, gbp_settings.beta), DriftSquared(k))

IsNonLinear(k) == factors[k].factor.model.kind = "NonLinear"

\* C22: the JIT step runs compute() once more for a non-linear factor exactly
\* when the norm of (adjacency mean - linearisation point) is strictly greater
\* than beta, and leaves every other factor, linear ones with any drift
\* included, as it was.
JitRecomputesExactlyDriftedNonLinear ==
    [][pc = "jit" =>
          \A k \in 1..Len(factors) :
              IF IsNonLinear(k) /\ BeyondBeta(k)
              THEN /\ factors'[k].factor.computes = factors[k].factor.computes + 1
                   /\ factors'[k].factor.linearisation_point =
                          AdjMeans(variables, factors[k].adjacent_variables)
              ELSE factors'[k] = factors[k]]_vars

\* a later JIT step has left alone a non-linear factor that an earlier one
\* relinearised, its drift being exactly beta = 0
JitSkippedAtBoundary ==
    /\ pc = "messages"
    /\ Passes >= 1
    /\ \E k \in 1..Len(factors) :
          /\ IsNonLinear(k)
          /\ factors[k].factor.computes = 1
          /\ gbp_settings.beta = RZero
          /\ DriftSquared(k) = RZero

-----------------------------------------------------------------------------
\* Properties of add_factor().

\* C23: every factor of the graph, linear ones included, has been through
\* compute() at least once when a message phase of solve() begins.
FactorsComputedBeforeMessages ==
    pc = "messages" => \A k \in 1..Len(factors) : factors[k].factor.computes >= 1

-----------------------------------------------------------------------------
\* Properties of the diagonal contributions in joint_distribution().

\* the factor-local offset of the a-th neighbour of factor k: the dofs of the
\* neighbours before it
LocalOffset(k, a) ==
    SumSeq([n \in 1..(a - 1) |-> variables[factors[k].adjacent_variables[n] + 1].dofs])

\* C24: for the a-th neighbour v of every factor the diagonal contribution is
\* read from the factor's Gaussian at the sum of the dofs of the neighbours
\* before v, inside the factor's dimension, and added onto the joint at
\* (var_ix[v], var_ix[v]).
DiagonalBlocksReadAtLocalOffset ==
    (pc = "joint" /\ WellFormed) =>
        \A k \in 1..Len(factors) :
            \A a \in 1..Len(factors[k].adjacent_variables) :
                LET v == factors[k].adjacent_variables[a]
                    d == variables[v + 1].dofs
                    o == LocalOffset(k, a)
                IN  /\ o + d <= Len(factors[k].factor.gaussian.information_vector)
                    /\ HasOp("diag", factors[k].id, <<o>>, <<Offset(v)>>, <<d>>)
                    /\ HasOp("diag", factors[k].id, <<o, o>>,
                             <<Offset(v), Offset(v)>>, <<d, d>>)

-----------------------------------------------------------------------------
\* Properties of the prior slices of gradient().

\* C25: gradient() with priors writes the prior contribution of variable v
\* into the slice of length v.dofs that starts at the sum of the dofs of the
\* variables with smaller id, the offset joint_distribution() uses, and no
\* slice reaches past the joint dimension.
GradientPriorSlicesAtJointOffsets ==
    [][(pc = "build" /\ pc' \in {"stepped", "panic"}) =>
          /\ gradient(Graph, TRUE).status = "ok"
          /\ \A k \in 1..Len(variables) :
                LET id == variables[k].id
                    start == GradientVarIx(Graph)[id + 1]
                IN  /\ start = Offset(id)
                    /\ start + variables[k].dofs <= get_joint_dim(Graph)]_vars

-----------------------------------------------------------------------------
\* Properties of solve() with a convergence threshold of zero.

\* C26: with convergence_threshold = 0 the counter of stable passes stays 0,
\* solve() never ends early, and when it ends it has run settings.iterations
\* passes, however constant the energy.
ZeroThresholdNeverEndsEarly ==
    settings.convergence_threshold = RZero =>
        /\ count = 0
        /\ outcome # "Converged"
        /\ pc = "done" => Passes = settings.iterations

\* a finished run with threshold 0 whose energy was the same in every pass
ConstantEnergyRanToTheEnd ==
    /\ pc = "done"
    /\ settings.convergence_threshold = RZero
    /\ Passes = MaxIterations
    /\ Len(factors) > 0
    /\ \A n \in 1..Passes : energy_trace[n] = energy_trace[1]

-----------------------------------------------------------------------------
\* The SimulationManager as a state machine: the plugin builds it from a
\* directory that holds at least one simulation, callers enqueue requests
\* with ids the manager handed out, and the engine runs handle_requests on
\* a timer.

solver_vars == <<factors, variables, gbp_settings, settings, i, energy_log, count,
                 outcome, apply_dropout, draws, energy_trace, computed, joint, runA, runB>>

SimInit ==
    /\ \E n \in 1..MaxSimulations :
          /\ simulation_manager = NewSimulationManager(Simulations(n))
          /\ world = NewWorld(Simulations(n))
    /\ pc = "running"
    /\ gbp_settings = DefaultGbpSettings
    /\ factors = <<>>
    /\ variables = <<>>
    /\ settings = [iterations |-> 0, convergence_threshold |-> RZero,
                   include_priors |-> TRUE, log |-> TRUE]
    /\ i = 0
    /\ energy_log = <<RZero, RZero>>
    /\ count = 0
    /\ outcome = "none"
    /\ apply_dropout = FALSE
    /\ draws = <<>>
    /\ energy_trace = <<>>
    /\ computed = {}
    /\ joint = NoJoint
    /\ runA = NoRun
    /\ runB = NoRun

\* requests are made while the queue and the load counter have room
RoomForRequest ==
    /\ Len(simulation_manager.requests) < MaxRequests
    /\ simulation_manager.simulations_loaded + Len(simulation_manager.requests) < MaxLoaded

\* a caller asks for the simulation id
LoadRequest ==
    /\ pc = "running"
    /\ RoomForRequest
    /\ \E id \in ids(simulation_manager) :
          simulation_manager' = load(simulation_manager, id)
    /\ UNCHANGED <<world, pc, solver_vars>>

\* the system run when F5 was pressed
reload_simulation ==
    /\ pc = "running"
    /\ RoomForRequest
    /\ simulation_manager' = reload(simulation_manager)
    /\ UNCHANGED <<world, pc, solver_vars>>

\* the system run on the timer
HandleRequests ==
    /\ pc = "running"
    /\ LET r == handle_requests(simulation_manager, world)
       IN  /\ simulation_manager' = r.m
           /\ world' = r.w
           /\ pc' = IF r.status = "ok" THEN "running" ELSE "panic"
    /\ UNCHANGED solver_vars

SimNext ==
    \/ LoadRequest
    \/ reload_simulation
    \/ HandleRequests

SpecSim == SimInit /\ [][SimNext]_vars

\* the timer keeps firing, so handle_requests keeps being run
SpecSimFair == SpecSim /\ WF_vars(HandleRequests)

-----------------------------------------------------------------------------
\* Properties of the SimulationManager.

Requests == simulation_manager.requests

\* the oldest pending request leaves the queue
PopsOldest == Requests # <<>> /\ simulation_manager'.requests = Tail(Requests)

\* one request joins the queue behind the pending ones
EnqueuesBehind ==
    /\ Len(simulation_manager'.requests) = Len(Requests) + 1
    /\ SubSeq(simulation_manager'.requests, 1, Len(Requests)) = Requests

\* a run of the handler on an empty queue changes nothing and sends nothing
NothingPending ==
    /\ Requests = <<>>
    /\ simulation_manager' = simulation_manager
    /\ world'.config = world.config
    /\ world'.environment = world.environment
    /\ world'.sent = <<>>

\* C27: every step either removes exactly the oldest pending request, or
\* puts one request behind all pending ones, or is a run of the handler on
\* an empty queue that changes nothing; and while handle_requests keeps
\* being run the oldest request keeps being removed until none is pending.
RequestsHandledInOrder ==
    /\ [][PopsOldest \/ EnqueuesBehind \/ NothingPending]_vars
    /\ ([]<><<PopsOldest>>_vars \/ <>[](Requests = <<>>))

\* the initial Load(0) and a later Load(1) were handled, in that order,
\* while a Reload enqueued after them still waits
ReloadWaitsBehindLoads ==
    /\ Len(simulation_manager.simulations) = 2
    /\ Requests = <<Reload>>
    /\ simulation_manager.simulations_loaded = 2
    /\ simulation_manager.active = Some(1)
    /\ world.sent = <<LoadSimulation(1)>>

Active == simulation_manager.active
Loaded == simulation_manager.simulations_loaded
NumSimulations == Len(simulation_manager.simulations)

\* C28: handling Load(id) when id is the active simulation and
\* simulations_loaded > 0 leaves active and simulations_loaded alone and sends
\* no event; handling any other Load(id), the initial Load(0) included, makes
\* id active, sends exactly LoadSimulation(id) and adds one to
\* simulations_loaded.
LoadHandledOncePerSimulation ==
    [][(PopsOldest /\ Head(Requests)[1] = "Load") =>
          LET id == Head(Requests)[2]
          IN  IF Active = Some(id) /\ Loaded > 0
              THEN /\ simulation_manager'.active = Active
                   /\ simulation_manager'.simulations_loaded = Loaded
                   /\ world'.sent = <<>>
              ELSE /\ simulation_manager'.active = Some(id)
                   /\ simulation_manager'.simulations_loaded = Loaded + 1
                   /\ world'.sent = <<LoadSimulation(id)>>]_vars

\* the Load(0) queued at construction has been handled
InitialLoadHandled ==
    /\ pc = "running"
    /\ Requests = <<>>
    /\ Loaded = 1
    /\ Active = Some(0)
    /\ world.sent = <<LoadSimulation(0)>>

\* C29: active is None or an index below the number of simulations, every
\* Load(id) in the queue has id below the number of simulations, there is a
\* name for every simulation, and the handler never indexes out of bounds.
IdsStayInRange ==
    /\ pc # "panic"
    /\ Active = None \/ Active[1] < NumSimulations
    /\ Len(simulation_manager.names) = NumSimulations
    /\ \A k \in 1..Len(Requests) :
          Requests[k][1] = "Load" => Requests[k][2] < NumSimulations

\* the last of two simulations has been loaded
LastSimulationLoaded ==
    /\ NumSimulations = MaxSimulations
    /\ Active = Some(MaxSimulations - 1)
    /\ world.config = simulation_manager.simulations[MaxSimulations].config
    /\ world.sent = <<LoadSimulation(MaxSimulations - 1)>>

\* C30: the queue only ever holds Load and Reload requests, the handler
\* never reaches the LoadInitial arm, active is never None, and every call of
\* reload() puts a Reload at the back of the queue.
OnlyLoadAndReloadQueued ==
    /\ [](/\ \A k \in 1..Len(Requests) : Requests[k][1] \in {"Load", "Reload"}
          /\ pc # "panic"
          /\ Active # None)
    /\ [][reload_simulation =>
             simulation_manager'.requests = Append(Requests, Reload)]_vars

\* a Reload has been enqueued and handled
ReloadHandled ==
    /\ pc = "running"
    /\ Loaded = 2
    /\ world.sent = <<ReloadSimulation(0)>>

====
